---- MODULE Spec2Model ----
(***************************************************************************)
(* BayesianSearchCV (src/search.py): construction (scoring resolution,     *)
(* budget validation, domain translation), point decoding, the result      *)
(* accumulator _Report and the fit state machine.                          *)
(*                                                                         *)
(* Python values are records [t, n, s]: t is the Python type, n the number *)
(* (an int, or a float counted in tenths, so 4.0 is 40 and 4.3 is 43) and  *)
(* s the text of a str.  None and unset attributes are the empty sequence, *)
(* a present value x is <<x>>.  Mean scores are kept as the sum over the   *)
(* CV folds (mean * CV) and the standard deviation as CV^2 * variance, so  *)
(* that order and equality of the statistics are those of the code.        *)
(***************************************************************************)
EXTENDS Integers, Sequences, FiniteSets, TLC

VARIABLES
    pc,              \* position of the driver: new / constructed / init_failed /
                     \* searching / refitting / fitted / failed
    error,           \* the exception that ended __init__ or fit ("" if none)
    arg_scoring,     \* __init__ argument scoring
    arg_n_iter,      \* __init__ argument n_iter (<<>> is None)
    arg_init_trials, \* __init__ argument init_trials (<<>> is None)
    param_grid,      \* __init__ argument param_grid
    refit,           \* self.refit
    scoring,         \* self.scoring
    maximize,        \* self._maximize
    n_iter,          \* self.n_iter
    init_trials,     \* self.init_trials
    domain,          \* self._domain
    str_params,      \* self._str_params
    iter,            \* _report.iter
    s,               \* _report.s
    mean_fit_time,   \* _report.mean_fit_time
    params,          \* _report.params
    mean_test_score, \* _report.mean_test_score
    std_test_score,  \* _report.std_test_score
    test_scores,     \* _report.test_scores, one sequence per fold
    r_best_score,    \* _report.best_score_
    r_best_params,   \* _report.best_params_
    cv_results_,     \* self.cv_results_
    best_params_,    \* self.best_params_
    best_score_,     \* self.best_score_
    best_estimator_, \* self.best_estimator_
    evals,           \* objective evaluations started by the running fit
    feed,            \* the mapping last returned by _get_feed_params
    hist,            \* history: the evaluations that completed, in order
    cap0,            \* history: the capacity the accumulator was built with
    jobs,            \* position of each concurrent objective evaluation
    base             \* the SearchBase instance that wraps the driver

vars == <<pc, error, arg_scoring, arg_n_iter, arg_init_trials, param_grid,
          refit, scoring, maximize, n_iter, init_trials, domain, str_params,
          iter, s, mean_fit_time, params, mean_test_score, std_test_score,
          test_scores, r_best_score, r_best_params, cv_results_, best_params_,
          best_score_, best_estimator_, evals, feed, hist, cap0, jobs, base>>

ctorVars == <<arg_scoring, arg_n_iter, arg_init_trials, param_grid, refit,
              scoring, maximize, n_iter, init_trials, domain, str_params, cap0>>

reportVars == <<iter, s, mean_fit_time, params, mean_test_score,
                std_test_score, test_scores, r_best_score, r_best_params>>

publishedVars == <<cv_results_, best_params_, best_score_, best_estimator_>>

extVars == <<jobs, base>>

----------------------------------------------------------------------------
(* Bounds of the model *)

MaxBudget == 3        \* largest n_iter / init_trials argument tried
MaxCap == 3           \* largest initial capacity of the accumulator
MaxIter == 3          \* largest n_iter of a driver that is fitted
MaxEvals == 4         \* evaluations recorded by one accumulator
NJobs == 2            \* objective evaluations the optimizer runs at once

\* folds of the cross-validation (the cv argument, default 5 at search.py:192)
CV == 2

----------------------------------------------------------------------------
(* Python values *)

None == <<>>
Some(x) == <<x>>

PyInt(n) == [t |-> "int", n |-> n, s |-> ""]
PyFloat(tenths) == [t |-> "float", n |-> tenths, s |-> ""]
PyStr(str) == [t |-> "str", n |-> 0, s |-> str]

IsNumber(v) == v.t \in {"int", "float"}

\* the float an optimizer row holds for a numeric domain value
AsFloat(v) == IF v.t = "int" THEN PyFloat(10 * v.n) ELSE v

\* Python truth value of an optional int argument: None and 0 are falsy
Falsy(opt) == opt = None \/ opt[1] = 0

SeqMin(S) == CHOOSE x \in S : \A y \in S : x <= y

----------------------------------------------------------------------------
(* Errors raised by the code *)

ErrInvalidScoring == "ValueError: Invalid scoring"
ErrSubscript == "TypeError: object is not subscriptable"
ErrTotal == "ValueError: Total number of iterations should be higher than the number of initial trials"
ErrInitial == "ValueError: Number of initial trials should be at least equal to the number of search params"
ErrDomain == "TypeError: Domain is not iterable or Distribution"
ErrIncomplete == "TypeError: Bound definition is not complete"
ErrGrid == "TypeError: Invalid grid type"
ErrKeyDomain == "KeyError: 'domain'"
ErrIndex == "IndexError: list index out of range"
ErrPut == "IndexError: index is out of bounds for the buffer"
ErrEmptyBest == "IndexError: index -1 is out of bounds for axis 0 with size 0"
ErrListIndex == "TypeError: list indices must be integers"
ErrEvaluation == "error raised by the objective evaluation"
ErrRefit == "error raised by the refit"

----------------------------------------------------------------------------
(* _get_scoring.  A str is a sequence of characters; a scoring argument is *)
(* [kind, name, inner_kind, maximize]: kind "str" with its text in name,   *)
(* kind "mapping" {'scoring': name, 'maximize': maximize} whose 'scoring'  *)
(* entry is of kind inner_kind, or kind "other" (e.g. a bare callable).    *)

EndsWith(str, suffix) ==
    /\ Len(str) >= Len(suffix)
    /\ SubSeq(str, Len(str) - Len(suffix) + 1, Len(str)) = suffix

Loss == <<"l", "o", "s", "s">>
ErrorSuffix == <<"e", "r", "r", "o", "r">>

\* scoring['maximize'] at line 300, where scoring was rebound at line 299 to
\* the 'scoring' entry of the mapping
SubscriptMaximize(arg) ==
    IF arg.inner_kind = "mapping"
    THEN [err |-> "", value |-> arg.maximize]
    ELSE [err |-> ErrSubscript, value |-> FALSE]

_get_scoring(arg) ==
    IF arg.kind = "str"
    THEN [err |-> "", scoring |-> arg.name,
          maximize |-> ~(EndsWith(arg.name, Loss) \/ EndsWith(arg.name, ErrorSuffix))]
    ELSE IF arg.kind = "mapping"
    THEN LET m == SubscriptMaximize(arg)
         IN  [err |-> m.err, scoring |-> arg.name, maximize |-> m.value]
    ELSE [err |-> ErrInvalidScoring, scoring |-> arg.name, maximize |-> FALSE]

----------------------------------------------------------------------------
(* _check_trials *)

_check_trials(n, it, n_params) ==
    LET it1 == IF Falsy(it) THEN n_params ELSE it[1]
        n1 == IF Falsy(n) THEN 5 * n_params ELSE n[1]
    IN  IF it1 >= n1 THEN [err |-> ErrTotal, n_iter |-> n1, init_trials |-> it1]
        ELSE IF it1 < n_params THEN [err |-> ErrInitial, n_iter |-> n1, init_trials |-> it1]
        ELSE [err |-> "", n_iter |-> n1, init_trials |-> it1]

----------------------------------------------------------------------------
(* _check_bounds.  A domain is [kind, items]: kind "list" or "tuple" (an   *)
(* iterable that is not a list) with its items, "rvs" (a distribution),    *)
(* "scalar" (neither) or "ndarray" (what np.arange returns).  A grid is    *)
(* [form, entries]; an entry is [name, type, domain, complete], where type *)
(* and complete are only read for an explicit bound descriptor.  A bound   *)
(* is [name, type, domain, has_domain].                                    *)

NoDomain == [kind |-> "scalar", items |-> <<>>]

\* distr.rvs(n_samples).tolist()
distr_to_discrete(samples) == [kind |-> "list", items |-> samples]

param_to_bound(e, samples) ==
    IF e.domain.kind = "rvs"
    THEN [name |-> e.name, type |-> "discrete", domain |-> distr_to_discrete(samples),
          has_domain |-> TRUE]
    ELSE IF e.domain.kind \in {"list", "tuple", "ndarray"}
    THEN [name |-> e.name, type |-> "discrete", domain |-> e.domain, has_domain |-> TRUE]
    ELSE [name |-> e.name, type |-> "discrete", domain |-> NoDomain, has_domain |-> FALSE]

check_bound(e, samples) ==
    IF e.complete
    THEN IF e.domain.kind = "rvs"
         THEN [err |-> "",
               bound |-> [name |-> e.name, type |-> "discrete",
                          domain |-> distr_to_discrete(samples), has_domain |-> TRUE]]
         ELSE IF e.domain.kind \in {"list", "tuple", "ndarray"}
         THEN [err |-> "",
               bound |-> [name |-> e.name, type |-> e.type, domain |-> e.domain,
                          has_domain |-> TRUE]]
         ELSE [err |-> ErrDomain,
               bound |-> [name |-> e.name, type |-> e.type, domain |-> NoDomain,
                          has_domain |-> FALSE]]
    ELSE [err |-> ErrIncomplete,
          bound |-> [name |-> e.name, type |-> e.type, domain |-> NoDomain,
                     has_domain |-> FALSE]]

\* np.arange(n)
Arange(n) == [kind |-> "ndarray", items |-> [i \in 1..n |-> PyInt(i - 1)]]

HasStr(items) == \E i \in 1..Len(items) : items[i].t = "str"

\* check_str: the result carries the str_configs entry it makes, if any
check_str(b) ==
    IF ~b.has_domain
    THEN [err |-> ErrKeyDomain, bound |-> b, cfg |-> None]
    ELSE IF b.domain.kind = "list" /\ HasStr(b.domain.items)
    THEN [err |-> "", bound |-> [b EXCEPT !.domain = Arange(Len(b.domain.items))],
          cfg |-> Some(b.domain.items)]
    ELSE [err |-> "", bound |-> b, cfg |-> None]

\* one iteration of the loops at lines 347-348 and 351-352
TranslateEntry(form, e, samples) ==
    IF form = "mapping"
    THEN check_str(param_to_bound(e, samples))
    ELSE LET c == check_bound(e, samples)
         IN  IF c.err # "" THEN [err |-> c.err, bound |-> c.bound, cfg |-> None]
             ELSE check_str(c.bound)

\* smp[i] is what the distribution of entry i would return from rvs
_check_bounds(candidate, smp) ==
    IF candidate.form \notin {"mapping", "list"}
    THEN [err |-> ErrGrid, bounds |-> <<>>, str_configs |-> <<>>]
    ELSE LET n == Len(candidate.entries)
             res == [i \in 1..n |-> TranslateEntry(candidate.form, candidate.entries[i], smp[i])]
             bad == {i \in 1..n : res[i].err # ""}
             named == {i \in 1..n : res[i].cfg # None}
         IN  IF bad # {}
             THEN [err |-> res[SeqMin(bad)].err, bounds |-> <<>>, str_configs |-> <<>>]
             ELSE [err |-> "",
                   bounds |-> [i \in 1..n |-> res[i].bound],
                   str_configs |->
                       [nm \in {res[i].bound.name : i \in named} |->
                           LET i == CHOOSE j \in named : res[j].bound.name = nm
                           IN  res[i].cfg[1]]]

----------------------------------------------------------------------------
(* _check_int and _get_feed_params *)

_check_int(v) ==
    IF v.t = "float" /\ v.n % 10 = 0 THEN PyInt(v.n \div 10) ELSE v

\* L[k] on a Python list
ListItem(L, k) ==
    IF k.t # "int" THEN [err |-> ErrListIndex, value |-> k]
    ELSE IF k.n >= Len(L) \/ k.n < -Len(L) THEN [err |-> ErrIndex, value |-> k]
    ELSE IF k.n >= 0 THEN [err |-> "", value |-> L[k.n + 1]]
    ELSE [err |-> "", value |-> L[Len(L) + k.n + 1]]

\* the value stored under bounds[i]['name'] by one pass of the loop body
FeedValue(bounds, next_set, strs, i) ==
    IF bounds[i].name \in DOMAIN strs
    THEN LET item == ListItem(strs[bounds[i].name], _check_int(next_set[i]))
         IN  [err |-> item.err, value |-> _check_int(item.value)]
    ELSE [err |-> "", value |-> _check_int(next_set[i])]

_get_feed_params(bounds, next_set, strs) ==
    LET n == Len(bounds)
        vals == [i \in 1..n |-> FeedValue(bounds, next_set, strs, i)]
        bad == {i \in 1..n : vals[i].err # ""}
        last(nm) == CHOOSE i \in 1..n :
                        /\ bounds[i].name = nm
                        /\ \A j \in 1..n : bounds[j].name = nm => j <= i
    IN  IF bad # {}
        THEN [err |-> vals[SeqMin(bad)].err, row |-> next_set, params |-> <<>>]
        ELSE [err |-> "", row |-> next_set,
              params |-> [nm \in {bounds[i].name : i \in 1..n} |-> vals[last(nm)].value]]

----------------------------------------------------------------------------
(* __init__ *)

\* _Report.__init__: np.zeros(s), np.zeros(s, dtype=object), np.zeros((cv, s))
Zeros(n) == [i \in 1..n |-> 0]
ZeroObjects(n) == [i \in 1..n |-> None]

\* lines 198-212 up to the first statement that raises
NewDriver(a_scoring, a_n_iter, a_init_trials, grid, smp) ==
    LET sc == _get_scoring(a_scoring)
        tr == _check_trials(a_n_iter, a_init_trials, Len(grid.entries))
        bd == _check_bounds(grid, smp)
        blank == [err |-> "", scoring |-> <<>>, maximize |-> FALSE, n_iter |-> 0,
                  init_trials |-> 0, domain |-> <<>>, str_params |-> <<>>]
    IN  IF sc.err # "" THEN [blank EXCEPT !.err = sc.err]
        ELSE IF tr.err # "" THEN [blank EXCEPT !.err = tr.err]
        ELSE IF bd.err # "" THEN [blank EXCEPT !.err = bd.err]
        ELSE [err |-> "", scoring |-> sc.scoring, maximize |-> sc.maximize,
              n_iter |-> tr.n_iter, init_trials |-> tr.init_trials,
              domain |-> bd.bounds, str_params |-> bd.str_configs]

\* n_samples of line 212, when _check_trials returns
NSamples(a_n_iter, a_init_trials, grid) ==
    LET tr == _check_trials(a_n_iter, a_init_trials, Len(grid.entries))
    IN  IF tr.err = "" THEN tr.n_iter - tr.init_trials ELSE 0

----------------------------------------------------------------------------
(* Arguments tried *)

RocAuc == <<"r", "o", "c", "_", "a", "u", "c">>
LogLoss == <<"l", "o", "g", "_", "l", "o", "s", "s">>
MaxError == <<"m", "a", "x", "_", "e", "r", "r", "o", "r">>
Callable == <<"f">>

StrScoring(name) == [kind |-> "str", name |-> name, inner_kind |-> "", maximize |-> FALSE]

ScoringArgs ==
    {StrScoring(nm) : nm \in {RocAuc, LogLoss, MaxError}}
    \cup {[kind |-> "mapping", name |-> Callable, inner_kind |-> "callable", maximize |-> b] :
             b \in BOOLEAN}
    \cup {[kind |-> "other", name |-> Callable, inner_kind |-> "", maximize |-> FALSE]}

BudgetArgs == {None} \cup {Some(n) : n \in 0..MaxBudget}

PyList(items) == [kind |-> "list", items |-> items]

Domains ==
    { PyList(<<PyInt(3), PyInt(5)>>),
      PyList(<<PyFloat(40), PyFloat(43)>>),
      PyList(<<PyStr("a"), PyStr("b"), PyStr("c")>>),
      PyList(<<PyStr("a"), PyFloat(20)>>),
      [kind |-> "tuple", items |-> <<PyStr("a"), PyStr("b")>>],
      [kind |-> "rvs", items |-> <<>>],
      [kind |-> "scalar", items |-> <<>>] }

ParamNames == <<"p1", "p2">>

\* the entry of a name -> value mapping
MapEntry(d) == [type |-> "", domain |-> d, complete |-> TRUE]

\* explicit bound descriptors: 'discrete' ones, a 'continuous' one and one
\* with a key missing
ListEntries ==
    {[type |-> "discrete", domain |-> d, complete |-> TRUE] : d \in Domains}
    \cup {[type |-> "continuous", domain |-> PyList(<<PyStr("a"), PyStr("b"), PyStr("c")>>),
           complete |-> TRUE],
          [type |-> "discrete", domain |-> PyList(<<PyInt(3), PyInt(5)>>), complete |-> FALSE]}

Named(es) ==
    [i \in 1..Len(es) |->
        [name |-> ParamNames[i], type |-> es[i].type, domain |-> es[i].domain,
         complete |-> es[i].complete]]

EntrySeqs(E) == UNION {[1..n -> E] : n \in 1..Len(ParamNames)}

Grids ==
    {[form |-> "mapping", entries |-> Named(es)] : es \in EntrySeqs({MapEntry(d) : d \in Domains})}
    \cup {[form |-> "list", entries |-> Named(es)] : es \in EntrySeqs(ListEntries)}
    \cup {[form |-> "tuple",
           entries |-> Named(<<[type |-> "discrete", domain |-> PyList(<<PyInt(3), PyInt(5)>>),
                                complete |-> TRUE]>>)]}

\* what rvs(n) may return: floats, integral or not
SampleVals == {PyFloat(43), PyFloat(70)}

SampleSeqs(n) ==
    {[i \in 1..n |-> a] : a \in SampleVals}
    \cup {[i \in 1..n |-> IF i = 1 THEN PyFloat(43) ELSE PyFloat(70)]}

SampleChoices(grid, n) ==
    {f \in [1..Len(grid.entries) -> SampleSeqs(n) \cup {<<>>}] :
        \A i \in 1..Len(grid.entries) :
            IF grid.entries[i].domain.kind = "rvs" THEN f[i] # <<>> \/ n = 0 ELSE f[i] = <<>>}

\* the rows the optimizer can propose for a discrete numeric domain
NumericDomain(bounds) ==
    \A i \in 1..Len(bounds) :
        \A k \in 1..Len(bounds[i].domain.items) : IsNumber(bounds[i].domain.items[k])

RowValues(bounds) ==
    UNION {{AsFloat(bounds[i].domain.items[k]) : k \in 1..Len(bounds[i].domain.items)} :
              i \in 1..Len(bounds)}

Rows(bounds) ==
    {r \in [1..Len(bounds) -> RowValues(bounds)] :
        \A i \in 1..Len(bounds) :
            \E k \in 1..Len(bounds[i].domain.items) : r[i] = AsFloat(bounds[i].domain.items[k])}

----------------------------------------------------------------------------
(* Construction and decoding *)

\* no objective evaluation is running
IdleJob == [at |-> "idle", p |-> None, test_score |-> <<>>]
NoJobs == [w \in 1..NJobs |-> IdleJob]

BlankReport(cap) ==
    /\ iter = 0
    /\ s = cap
    /\ mean_fit_time = Zeros(cap)
    /\ params = ZeroObjects(cap)
    /\ mean_test_score = Zeros(cap)
    /\ std_test_score = Zeros(cap)
    /\ test_scores = [f \in 1..CV |-> Zeros(cap)]
    /\ r_best_score = None
    /\ r_best_params = None

Unpublished ==
    /\ cv_results_ = None
    /\ best_params_ = None
    /\ best_score_ = None
    /\ best_estimator_ = None

InitNew ==
    /\ pc = "new"
    /\ error = ""
    /\ arg_scoring \in ScoringArgs
    /\ arg_n_iter \in BudgetArgs
    /\ arg_init_trials \in BudgetArgs
    /\ param_grid \in Grids
    /\ refit = TRUE
    /\ scoring = <<>>
    /\ maximize = FALSE
    /\ n_iter = 0
    /\ init_trials = 0
    /\ domain = <<>>
    /\ str_params = <<>>
    /\ cap0 = MaxCap
    /\ BlankReport(MaxCap)
    /\ Unpublished
    /\ evals = 0
    /\ feed = None
    /\ hist = <<>>
    /\ jobs = NoJobs
    /\ base = None

\* BayesianSearchCV.__init__
Construct ==
    /\ pc = "new"
    /\ \E smp \in SampleChoices(param_grid, NSamples(arg_n_iter, arg_init_trials, param_grid)) :
          LET d == NewDriver(arg_scoring, arg_n_iter, arg_init_trials, param_grid, smp)
          IN  /\ pc' = IF d.err = "" THEN "constructed" ELSE "init_failed"
              /\ error' = d.err
              /\ scoring' = d.scoring
              /\ maximize' = d.maximize
              /\ n_iter' = d.n_iter
              /\ init_trials' = d.init_trials
              /\ domain' = d.domain
              /\ str_params' = d.str_params
    /\ UNCHANGED <<arg_scoring, arg_n_iter, arg_init_trials, param_grid, refit, cap0>>
    /\ UNCHANGED <<reportVars, publishedVars, evals, feed, hist, extVars>>

\* one call of _get_feed_params on a row proposed by the optimizer
Decode ==
    /\ pc = "constructed"
    /\ feed = None
    /\ NumericDomain(domain)
    /\ \E row \in Rows(domain) : feed' = Some(_get_feed_params(domain, row, str_params))
    /\ UNCHANGED <<pc, error, ctorVars, reportVars, publishedVars, evals, hist, extVars>>

NextNew == Construct \/ Decode

SpecNew == InitNew /\ [][NextNew]_vars

----------------------------------------------------------------------------
(* _Report *)

RECURSIVE SumSeq(_)
SumSeq(xs) == IF xs = <<>> THEN 0 ELSE xs[1] + SumSeq(Tail(xs))

\* np.mean over the folds, times CV
Mean(xs) == SumSeq(xs)

\* np.std over the folds: its square, times CV^2
Std(xs) == Len(xs) * SumSeq([i \in 1..Len(xs) |-> xs[i] * xs[i]]) - SumSeq(xs) * SumSeq(xs)

\* np.put(buf, i, v) and the column assignment of line 128 raise IndexError
\* when i is outside the buffer
CanPut(buf, i) == i < Len(buf)
Put(buf, i, v) == [buf EXCEPT ![i + 1] = v]

\* a resize that allocates a fresh zeroed buffer instead of keeping the data
NdResizeFresh(buf, n, zero) == [i \in 1..n |-> zero]

\* ndarray.resize(n) in place: the data is kept and padded with zeros
NdResize(buf, n, zero) == [i \in 1..n |-> IF i <= Len(buf) THEN buf[i] ELSE zero]

\* np.hstack((test_scores, np.zeros(test_scores.shape)))
HStackZeros(m) == [f \in 1..Len(m) |-> m[f] \o Zeros(Len(m[f]))]

\* the test of line 132, on the incremented counter
MustGrow(i, cap) == i = cap - 1

\* line 133
GrownCapacity(cap) == 2 * cap

\* what cross_validate returned: fit_time is one time unit per fold
FitTime == [f \in 1..CV |-> 1]
\* the test scores tried: every fold scores 0, or the first fold scores 1
FoldScores == {[f \in 1..CV |-> IF f <= k THEN 1 ELSE 0] : k \in 0..1}

\* _Report.update(p, scores, exec_time) returning normally
update(p, test_score) ==
    LET grow == MustGrow(iter + 1, s)
        cap == IF grow THEN GrownCapacity(s) ELSE s
        fit(buf, zero) == IF grow THEN NdResize(buf, cap, zero) ELSE buf
    IN  /\ CanPut(mean_fit_time, iter)
        /\ CanPut(params, iter)
        /\ CanPut(mean_test_score, iter)
        /\ CanPut(std_test_score, iter)
        /\ CanPut(test_scores[1], iter)
        /\ mean_fit_time' = fit(Put(mean_fit_time, iter, Mean(FitTime)), 0)
        /\ params' = fit(Put(params, iter, Some(p)), None)
        /\ mean_test_score' = fit(Put(mean_test_score, iter, Mean(test_score)), 0)
        /\ std_test_score' = fit(Put(std_test_score, iter, Std(test_score)), 0)
        /\ test_scores' =
              LET put == [f \in 1..CV |-> Put(test_scores[f], iter, test_score[f])]
              IN  IF grow THEN HStackZeros(put) ELSE put
        /\ iter' = iter + 1
        /\ s' = cap
        /\ UNCHANGED <<r_best_score, r_best_params>>

\* _Report.update raising IndexError: at the first np.put, or at line 128
\* after the 1-D buffers were written
updateRaises(p, test_score) ==
    \/ /\ ~CanPut(mean_fit_time, iter)
       /\ UNCHANGED reportVars
    \/ /\ CanPut(mean_fit_time, iter)
       /\ CanPut(params, iter)
       /\ CanPut(mean_test_score, iter)
       /\ CanPut(std_test_score, iter)
       /\ ~CanPut(test_scores[1], iter)
       /\ mean_fit_time' = Put(mean_fit_time, iter, Mean(FitTime))
       /\ params' = Put(params, iter, Some(p))
       /\ mean_test_score' = Put(mean_test_score, iter, Mean(test_score))
       /\ std_test_score' = Put(std_test_score, iter, Std(test_score))
       /\ UNCHANGED <<iter, s, test_scores, r_best_score, r_best_params>>

\* np.resize(a, n) for n >= 0: a is repeated or cut to n items
NpResize(a, n) == [i \in 1..n |-> a[((i - 1) % Len(a)) + 1]]

\* line 171
ReportRows(i) == i - 1

\* the table built at lines 172-181
ReportTable(n) ==
    [mean_fit_time |-> NpResize(mean_fit_time, n),
     params |-> NpResize(params, n),
     mean_test_score |-> NpResize(mean_test_score, n),
     std_test_score |-> NpResize(std_test_score, n),
     split |-> [f \in 1..CV |-> NpResize(test_scores[f], n)]]

\* scores.argsort()[-1]: an index of a largest score; the default sort is not
\* stable, so among equal largest scores any index may come last
BestIdx(scores) ==
    {i \in 1..Len(scores) : \A j \in 1..Len(scores) : scores[j] <= scores[i]}

----------------------------------------------------------------------------
(* fit.  The optimizer is the environment: it calls the objective _f on    *)
(* init_trials rows (the initial design, made by its constructor), then on *)
(* up to n_iter - init_trials further rows, and may stop earlier on        *)
(* max_time or eps.  An exception of _f is not caught by fit.              *)

MinCap == 2

FitScoring == {StrScoring(RocAuc), StrScoring(LogLoss)}

FitGrids ==
    {[form |-> "mapping", entries |-> Named(<<MapEntry(PyList(<<PyStr("a"), PyStr("b")>>))>>)]}

Init ==
    /\ pc = "constructed"
    /\ error = ""
    /\ arg_scoring \in FitScoring
    /\ arg_n_iter \in {Some(n) : n \in 1..MaxIter}
    /\ arg_init_trials \in {Some(n) : n \in 1..MaxIter}
    /\ param_grid \in FitGrids
    /\ refit \in BOOLEAN
    /\ LET d == NewDriver(arg_scoring, arg_n_iter, arg_init_trials, param_grid,
                          [i \in 1..Len(param_grid.entries) |-> <<>>])
       IN  /\ d.err = ""
           /\ scoring = d.scoring
           /\ maximize = d.maximize
           /\ n_iter = d.n_iter
           /\ init_trials = d.init_trials
           /\ domain = d.domain
           /\ str_params = d.str_params
    /\ cap0 \in MinCap..MaxCap
    /\ BlankReport(cap0)
    /\ Unpublished
    /\ evals = 0
    /\ feed = None
    /\ hist = <<>>
    /\ jobs = NoJobs
    /\ base = None

\* fit is called: lines 231-235 up to the first call of the objective
FitBegin ==
    /\ pc \in {"constructed", "fitted", "failed"}
    /\ iter + n_iter <= MaxEvals
    /\ pc' = "searching"
    /\ error' = ""
    /\ evals' = 0
    /\ UNCHANGED <<ctorVars, reportVars, publishedVars, feed, hist, extVars>>

\* _f runs to its end (lines 250-263): the row is decoded, cross-validated
\* and recorded; an exception of the decoding or of update leaves fit
Evaluate ==
    /\ pc = "searching"
    /\ evals < n_iter
    /\ \E row \in Rows(domain), test_score \in FoldScores :
          LET fp == _get_feed_params(domain, row, str_params)
          IN  /\ feed' = Some(fp)
              /\ IF fp.err # ""
                 THEN /\ pc' = "failed"
                      /\ error' = fp.err
                      /\ UNCHANGED <<reportVars, evals, hist>>
                 ELSE IF CanPut(mean_fit_time, iter) /\ CanPut(test_scores[1], iter)
                 THEN /\ update(fp.params, test_score)
                      /\ hist' = Append(hist, [params |-> fp.params, test_score |-> test_score])
                      /\ evals' = evals + 1
                      /\ UNCHANGED <<pc, error>>
                 ELSE /\ updateRaises(fp.params, test_score)
                      /\ pc' = "failed"
                      /\ error' = ErrPut
                      /\ UNCHANGED <<evals, hist>>
    /\ UNCHANGED <<ctorVars, publishedVars, extVars>>

\* an objective whose exception is swallowed: the search goes on
EvaluateRaisesSwallowed ==
    /\ pc = "searching"
    /\ evals < n_iter
    /\ evals' = evals + 1
    /\ error' = ErrEvaluation
    /\ UNCHANGED <<pc, ctorVars, reportVars, publishedVars, feed, hist, extVars>>

\* the estimator raises in set_params or cross_validate (lines 252-256),
\* before anything is recorded: the exception leaves fit
EvaluateRaises ==
    /\ pc = "searching"
    /\ evals < n_iter
    /\ pc' = "failed"
    /\ error' = ErrEvaluation
    /\ UNCHANGED <<ctorVars, reportVars, publishedVars, evals, feed, hist, extVars>>

\* run_optimization returns; lines 239-241 and the test of line 243
SearchEnd ==
    /\ pc = "searching"
    /\ evals >= init_trials
    /\ LET n == ReportRows(iter)
       IN  IF n <= 0
           THEN /\ pc' = "failed"
                /\ error' = ErrEmptyBest
                /\ UNCHANGED <<reportVars, publishedVars>>
           ELSE \E b \in BestIdx(NpResize(mean_test_score, n)) :
                /\ r_best_params' = NpResize(params, n)[b]
                /\ r_best_score' = Some(NpResize(mean_test_score, n)[b])
                /\ cv_results_' = Some(ReportTable(n))
                /\ best_params_' = r_best_params'
                /\ best_score_' = r_best_score'
                /\ pc' = IF refit THEN "refitting" ELSE "fitted"
                /\ error' = ""
                /\ UNCHANGED <<iter, s, mean_fit_time, params, mean_test_score,
                               std_test_score, test_scores, best_estimator_>>
    /\ UNCHANGED <<ctorVars, evals, feed, hist, extVars>>

\* lines 244-247
Refit ==
    /\ pc = "refitting"
    /\ best_estimator_' = Some([params |-> best_params_[1], fitted |-> TRUE])
    /\ pc' = "fitted"
    /\ UNCHANGED <<error, ctorVars, reportVars, cv_results_, best_params_, best_score_,
                   evals, feed, hist, extVars>>

\* set_params or fit of line 245-246 raises
RefitRaises ==
    /\ pc = "refitting"
    /\ pc' = "failed"
    /\ error' = ErrRefit
    /\ UNCHANGED <<ctorVars, reportVars, publishedVars, evals, feed, hist, extVars>>

Next ==
    \/ FitBegin
    \/ Evaluate
    \/ EvaluateRaises
    \/ SearchEnd
    \/ Refit
    \/ RefitRaises

Spec == Init /\ [][Next]_vars

----------------------------------------------------------------------------
(* Properties of the fitted driver (Spec) *)

Reported == pc \in {"refitting", "fitted"}

Table == cv_results_[1]

\* row j of the published table, as an evaluation would have filled it
RowOf(e) ==
    [params |-> Some(e.params), mean_test_score |-> Mean(e.test_score),
     std_test_score |-> Std(e.test_score), split |-> e.test_score]

TableRow(j) ==
    [params |-> Table.params[j], mean_test_score |-> Table.mean_test_score[j],
     std_test_score |-> Table.std_test_score[j],
     split |-> [f \in 1..CV |-> Table.split[f][j]]]

\* C1: right after report(), the table has one row per completed evaluation
\* (k rows after k updates) and row j holds the data of the j-th evaluation.
C1_AllEvaluationsReported ==
    Reported =>
        /\ Len(Table.params) = Len(hist)
        /\ Len(Table.mean_test_score) = Len(hist)
        /\ \A j \in 1..Len(hist) : j <= Len(Table.params) /\ TableRow(j) = RowOf(hist[j])

\* the last evaluation with the largest mean test score
LastBest(h) ==
    CHOOSE i \in 1..Len(h) :
        /\ \A j \in 1..Len(h) : Mean(h[j].test_score) <= Mean(h[i].test_score)
        /\ \A j \in 1..Len(h) : Mean(h[j].test_score) = Mean(h[i].test_score) => j <= i

\* C2: right after report(), best_score_ is the largest mean test score of all
\* recorded evaluations and best_params_ the parameters of the last
\* evaluation that reached it.
C2_BestOfAllEvaluations ==
    Reported =>
        /\ best_score_ = Some(Mean(hist[LastBest(hist)].test_score))
        /\ best_params_ = Some(hist[LastBest(hist)].params)

\* C3: the published best entry is a row of the table whose mean test score
\* is the largest of the table when scoring resolved to maximize and the
\* smallest when it resolved to minimize.
C3_BestFollowsDirection ==
    Reported =>
        \E b \in 1..Len(Table.params) :
            /\ best_params_ = Table.params[b]
            /\ best_score_ = Some(Table.mean_test_score[b])
            /\ \A j \in 1..Len(Table.params) :
                  IF maximize
                  THEN Table.mean_test_score[j] <= Table.mean_test_score[b]
                  ELSE Table.mean_test_score[j] >= Table.mean_test_score[b]

\* C4: a fit that completed has published cv_results_, best_params_ and
\* best_score_, and best_estimator_ exactly when refit is enabled; an
\* evaluation that raises ends the search at once with fit raising, records
\* nothing and publishes nothing; a search that is aborted publishes nothing;
\* a refit that raises makes fit raise and leaves best_estimator_ as it was,
\* and a best_estimator_ that is set is always a refitted one.
C4_FitCompletesOrRaises ==
    /\ [](pc = "fitted" =>
            /\ error = ""
            /\ cv_results_ # None /\ best_params_ # None /\ best_score_ # None
            /\ (best_estimator_ # None <=> refit))
    /\ [](best_estimator_ # None => best_estimator_[1].fitted)
    /\ [][(pc = "searching" /\ error' = ErrEvaluation) =>
             /\ pc' = "failed"
             /\ iter' = iter /\ hist' = hist /\ evals' = evals
             /\ UNCHANGED publishedVars]_vars
    /\ [][(pc = "searching" /\ pc' = "failed") => UNCHANGED publishedVars]_vars
    /\ [][pc = "failed" => (iter' = iter /\ UNCHANGED publishedVars)]_vars
    /\ [][(pc = "refitting" /\ error' = ErrRefit) =>
             (pc' = "failed" /\ best_estimator_' = best_estimator_)]_vars

\* C4 witness: a fit failed on a raising evaluation after another evaluation
\* had been recorded, with nothing published
C4_Witness ==
    /\ pc = "failed"
    /\ error = ErrEvaluation
    /\ evals >= 1
    /\ cv_results_ = None

\* C10: every buffer has the capacity s, a growth step doubles it, the rows
\* recorded so far are retrievable with the values they were written with,
\* and the slot of the next update lies inside the capacity.
C10_GrowthKeepsRows ==
    /\ [](/\ Len(mean_fit_time) = s /\ Len(params) = s
          /\ Len(mean_test_score) = s /\ Len(std_test_score) = s
          /\ \A f \in 1..CV : Len(test_scores[f]) = s)
    /\ [](iter < s /\ error # ErrPut)
    /\ [](/\ Len(hist) = iter
          /\ \A j \in 1..iter :
                /\ j <= s
                /\ mean_fit_time[j] = Mean(FitTime)
                /\ params[j] = Some(hist[j].params)
                /\ mean_test_score[j] = Mean(hist[j].test_score)
                /\ std_test_score[j] = Std(hist[j].test_score)
                /\ \A f \in 1..CV : test_scores[f][j] = hist[j].test_score[f])
    /\ [][s' # s => s' = 2 * s]_vars

\* C10 witness: the accumulator has grown and holds a row in a slot beyond
\* its initial capacity
C10_Witness ==
    /\ s > cap0
    /\ iter > cap0

----------------------------------------------------------------------------
(* Properties of construction and decoding (SpecNew) *)

Built == pc \in {"constructed", "init_failed"}

NParams == Len(param_grid.entries)

\* C5: once scoring is resolved, construction raises a budget error exactly
\* when init_trials >= n_iter or init_trials < number of parameters, a value
\* given as None being replaced by its default; a constructed driver has
\* number of parameters <= init_trials < n_iter.
C5_BudgetValidated ==
    (Built /\ _get_scoring(arg_scoring).err = "") =>
        LET it == IF arg_init_trials = None THEN NParams ELSE arg_init_trials[1]
            n == IF arg_n_iter = None THEN 5 * NParams ELSE arg_n_iter[1]
        IN  /\ (error \in {ErrTotal, ErrInitial}) <=> (it >= n \/ it < NParams)
            /\ pc = "constructed" => (init_trials < n_iter /\ init_trials >= NParams)

\* C6: a mapping-style scoring argument is accepted: resolving it does not
\* raise, and a constructed driver holds its 'scoring' entry and its
\* 'maximize' flag.
C6_MappingScoringHonored ==
    (Built /\ arg_scoring.kind = "mapping") =>
        /\ error \notin {ErrSubscript, ErrInvalidScoring}
        /\ pc = "constructed" => (scoring = arg_scoring.name /\ maximize = arg_scoring.maximize)

\* the nearest integer of a float counted in tenths
Nearest(v) == PyInt((v.n + 5) \div 10)

\* the decoding rule of the specification at position i
ReferenceValue(i, x) ==
    IF domain[i].name \in DOMAIN str_params
    THEN str_params[domain[i].name][Nearest(x).n + 1]
    ELSE IF x.t = "float" /\ x.n % 10 = 0 THEN PyInt(x.n \div 10)
    ELSE x

\* C7: _get_feed_params returns one entry per bound, and the entry of the
\* bound at position i is the categorical value L[r] when the parameter is in
\* the Categorical Index Table, the integer for an integral float, and the
\* float itself otherwise.
C7_DecodingRule ==
    feed # None =>
        /\ feed[1].err = ""
        /\ DOMAIN feed[1].params = {domain[i].name : i \in 1..Len(domain)}
        /\ \A i \in 1..Len(domain) :
              feed[1].params[domain[i].name] = ReferenceValue(i, feed[1].row[i])

\* C8: every bound of a constructed driver is 'discrete' with a numeric
\* domain, in input order; a parameter supplied with a domain holding a
\* string has the index range 0..len-1 as its domain and its original list
\* in the Categorical Index Table, which holds no other parameter.
C8_TranslatorOutput ==
    pc = "constructed" =>
        /\ Len(domain) = NParams
        /\ \A i \in 1..NParams :
              LET given == param_grid.entries[i]
              IN  /\ domain[i].name = given.name
                  /\ domain[i].type = "discrete"
                  /\ \A k \in 1..Len(domain[i].domain.items) : IsNumber(domain[i].domain.items[k])
                  /\ IF HasStr(given.domain.items)
                     THEN /\ domain[i].domain = Arange(Len(given.domain.items))
                          /\ given.name \in DOMAIN str_params
                          /\ str_params[given.name] = given.domain.items
                     ELSE given.name \notin DOMAIN str_params

\* C9: when construction reaches the Domain Translator with a grid whose only
\* defect is a domain that is neither a distribution nor an iterable, it
\* fails with the invalid-domain error, in the mapping form and in the
\* explicit form.
C9_InvalidDomainError ==
    ( /\ Built
      /\ _get_scoring(arg_scoring).err = ""
      /\ _check_trials(arg_n_iter, arg_init_trials, NParams).err = ""
      /\ param_grid.form \in {"mapping", "list"}
      /\ \A i \in 1..NParams : param_grid.entries[i].complete
      /\ \E i \in 1..NParams : param_grid.entries[i].domain.kind = "scalar" )
    => (pc = "init_failed" /\ error = ErrDomain)

----------------------------------------------------------------------------
(* The accumulator used through its own interface: update and report are   *)
(* called on the _Report a constructed driver holds.  The table report()   *)
(* returns is kept in cv_results_, where fit stores it.                     *)

ErrNegativeSize == "ValueError: all elements of new_shape must be non-negative"
ErrAttribute == "AttributeError: object has no attribute best_estimator_"

\* np.resize(a, n) for n < 0 on a NumPy whose resize does not reject it: the
\* size n leaves extra = len(a) - (n mod len(a)) items to cut from one copy
NpResizeNegative(a, n) == SubSeq(a, 1, Len(a) - (Len(a) - (n % Len(a))))

\* params[i] read from the object buffer: an unwritten slot holds the int 0
ObjectAt(buf, i) == IF buf[i] = None THEN Some(PyInt(0)) ELSE buf[i]

\* _Report.update called with a decoded mapping and the scores of a
\* cross-validation
ReportUpdate ==
    /\ pc = "constructed"
    /\ iter < MaxEvals
    /\ \E row \in Rows(domain), test_score \in FoldScores :
          LET fp == _get_feed_params(domain, row, str_params)
          IN  /\ fp.err = ""
              /\ update(fp.params, test_score)
              /\ hist' = Append(hist, [params |-> fp.params, test_score |-> test_score])
    /\ UNCHANGED <<pc, error, ctorVars, publishedVars, evals, feed, extVars>>

\* _Report.report called
ReportCall ==
    /\ pc = "constructed"
    /\ LET n == ReportRows(iter)
       IN  IF n < 0
           THEN \/ /\ pc' = "report_raised"
                   /\ error' = ErrNegativeSize
                   /\ UNCHANGED <<reportVars, cv_results_>>
                \/ \E b \in BestIdx(NpResizeNegative(mean_test_score, n)) :
                   /\ r_best_params' = ObjectAt(NpResizeNegative(params, n), b)
                   /\ r_best_score' = Some(NpResizeNegative(mean_test_score, n)[b])
                   /\ cv_results_' =
                         Some([mean_fit_time |-> NpResizeNegative(mean_fit_time, n),
                               params |-> NpResizeNegative(params, n),
                               mean_test_score |-> NpResizeNegative(mean_test_score, n),
                               std_test_score |-> NpResizeNegative(std_test_score, n),
                               split |-> [f \in 1..CV |-> NpResizeNegative(test_scores[f], n)]])
                   /\ pc' = "reported"
                   /\ error' = ""
                   /\ UNCHANGED <<iter, s, mean_fit_time, params, mean_test_score,
                                  std_test_score, test_scores>>
           ELSE IF n = 0
           THEN /\ pc' = "report_raised"
                /\ error' = ErrEmptyBest
                /\ UNCHANGED <<reportVars, cv_results_>>
           ELSE \E b \in BestIdx(NpResize(mean_test_score, n)) :
                /\ r_best_params' = ObjectAt(NpResize(params, n), b)
                /\ r_best_score' = Some(NpResize(mean_test_score, n)[b])
                /\ cv_results_' = Some(ReportTable(n))
                /\ pc' = "reported"
                /\ error' = ""
                /\ UNCHANGED <<iter, s, mean_fit_time, params, mean_test_score,
                               std_test_score, test_scores>>
    /\ UNCHANGED <<ctorVars, best_params_, best_score_, best_estimator_, evals, feed,
                   hist, extVars>>

NextReport == ReportUpdate \/ ReportCall

SpecReport == Init /\ [][NextReport]_vars

\* C11: report() on an accumulator with no completed iteration returns
\* normally, with a table of zero rows in every column, and leaves
\* best_params_ and best_score_ of the accumulator None.
C11_EmptyReport ==
    (pc \in {"reported", "report_raised"} /\ iter = 0) =>
        /\ pc = "reported"
        /\ error = ""
        /\ cv_results_ # None
        /\ Len(cv_results_[1].params) = 0
        /\ Len(cv_results_[1].mean_test_score) = 0
        /\ Len(cv_results_[1].std_test_score) = 0
        /\ Len(cv_results_[1].mean_fit_time) = 0
        /\ \A f \in 1..CV : Len(cv_results_[1].split[f]) = 0
        /\ r_best_params = None
        /\ r_best_score = None

\* ---------------------------------------------------------------------
\* The objective called from several threads of one process: _f and
\* update hold no lock, so the statements of two calls interleave.  A
\* call is cut in three steps: lines 250-258, lines 121-128, lines 130-142.
\* ---------------------------------------------------------------------

Busy == {w \in 1..NJobs : jobs[w].at # "idle"}

\* lines 250-258 in worker w: the row is decoded and cross-validated
JobStart(w) ==
    /\ pc = "searching"
    /\ jobs[w].at = "idle"
    /\ evals + Cardinality(Busy) < n_iter
    /\ \E row \in Rows(domain), test_score \in FoldScores :
          LET fp == _get_feed_params(domain, row, str_params)
          IN  /\ feed' = Some(fp)
              /\ IF fp.err # ""
                 THEN /\ pc' = "failed"
                      /\ error' = fp.err
                      /\ UNCHANGED jobs
                 ELSE /\ jobs' = [jobs EXCEPT ![w] =
                            [at |-> "scored", p |-> Some(fp.params),
                             test_score |-> test_score]]
                      /\ UNCHANGED <<pc, error>>
    /\ UNCHANGED <<ctorVars, reportVars, publishedVars, evals, hist, base>>

\* lines 121-128 in worker w: every buffer is written at the slot the
\* counter names at that moment
JobWrite(w) ==
    /\ pc = "searching"
    /\ jobs[w].at = "scored"
    /\ LET p == jobs[w].p[1]
           test_score == jobs[w].test_score
       IN  IF CanPut(mean_fit_time, iter) /\ CanPut(test_scores[1], iter)
           THEN /\ mean_fit_time' = Put(mean_fit_time, iter, Mean(FitTime))
                /\ params' = Put(params, iter, Some(p))
                /\ mean_test_score' = Put(mean_test_score, iter, Mean(test_score))
                /\ std_test_score' = Put(std_test_score, iter, Std(test_score))
                /\ test_scores' = [f \in 1..CV |-> Put(test_scores[f], iter, test_score[f])]
                /\ jobs' = [jobs EXCEPT ![w].at = "written"]
                /\ UNCHANGED <<pc, error, iter, s, r_best_score, r_best_params>>
           ELSE /\ updateRaises(p, test_score)
                /\ pc' = "failed"
                /\ error' = ErrPut
                /\ jobs' = [jobs EXCEPT ![w] = IdleJob]
    /\ UNCHANGED <<ctorVars, publishedVars, evals, feed, hist, base>>

\* lines 130-142 in worker w: the counter advances and the buffers grow;
\* the call returns and the evaluation is complete
JobAdvance(w) ==
    /\ pc = "searching"
    /\ jobs[w].at = "written"
    /\ LET grow == MustGrow(iter + 1, s)
           cap == IF grow THEN GrownCapacity(s) ELSE s
       IN  /\ iter' = iter + 1
           /\ s' = cap
           /\ mean_fit_time' = IF grow THEN NdResize(mean_fit_time, cap, 0) ELSE mean_fit_time
           /\ params' = IF grow THEN NdResize(params, cap, None) ELSE params
           /\ mean_test_score' = IF grow THEN NdResize(mean_test_score, cap, 0) ELSE mean_test_score
           /\ std_test_score' = IF grow THEN NdResize(std_test_score, cap, 0) ELSE std_test_score
           /\ test_scores' = IF grow THEN HStackZeros(test_scores) ELSE test_scores
    /\ hist' = Append(hist, [params |-> jobs[w].p[1], test_score |-> jobs[w].test_score])
    /\ evals' = evals + 1
    /\ jobs' = [jobs EXCEPT ![w] = IdleJob]
    /\ UNCHANGED <<pc, error, ctorVars, publishedVars, r_best_score, r_best_params, feed, base>>

\* fit on a fresh driver
FitFresh == pc = "constructed" /\ FitBegin

\* run_optimization returns once every call it made has returned, and the
\* report is published (lines 239-241); the refit that follows is left out
ParEnd == Busy = {} /\ SearchEnd

NextPar ==
    \/ FitFresh
    \/ \E w \in 1..NJobs : JobStart(w)
    \/ \E w \in 1..NJobs : JobWrite(w)
    \/ \E w \in 1..NJobs : JobAdvance(w)
    \/ ParEnd

SpecPar == Init /\ [][NextPar]_vars

\* row j of the buffers of the accumulator
BufferRow(j) ==
    [params |-> params[j], mean_test_score |-> mean_test_score[j],
     std_test_score |-> std_test_score[j],
     split |-> [f \in 1..CV |-> test_scores[f][j]]]

\* C12: whenever no update call is in progress, the iteration counter equals
\* the number of completed evaluations and every completed evaluation has a
\* row of its own among the first iter rows: none is overwritten or lost.
C12_UpdatesSerialized ==
    (pc = "searching" /\ Busy = {}) =>
        /\ iter = Len(hist)
        /\ \E at \in [1..Len(hist) -> 1..iter] :
              /\ \A i, j \in 1..Len(hist) : at[i] = at[j] => i = j
              /\ \A i \in 1..Len(hist) : BufferRow(at[i]) = RowOf(hist[i])

\* ---------------------------------------------------------------------
\* SearchBase.fit with search_mode 'bayesian' (base.py, lines 179-192): the
\* inner search object is built and fitted once, then its results are
\* copied.  base is None until SearchBase.fit has returned or raised.
\* ---------------------------------------------------------------------

\* the attributes SearchBase.fit has set when it leaves
BaseAttrs(outcome, err, results, bparams, bscore, bestimator, baseest) ==
    [pc |-> outcome, error |-> err, cv_results_ |-> results,
     best_params_ |-> bparams, best_score_ |-> bscore,
     best_estimator_ |-> bestimator, base_estimator_ |-> baseest]

\* lines 185-192, from the moment lookup.fit is over: an exception of
\* lookup.fit leaves SearchBase.fit; otherwise lines 187-189 copy the
\* results, line 190 reads lookup.best_estimator_, which raises when the
\* inner fit never set it, and line 191 clones the base estimator
SearchBaseFinish ==
    /\ pc \in {"fitted", "failed"}
    /\ base = None
    /\ base' = Some(
          IF pc = "failed"
          THEN BaseAttrs("raised", error, None, None, None, None, None)
          ELSE IF best_estimator_ = None
          THEN BaseAttrs("raised", ErrAttribute, cv_results_, best_params_,
                         best_score_, None, None)
          ELSE BaseAttrs("returned", "", cv_results_, best_params_,
                         best_score_, best_estimator_, Some("clone")))
    /\ UNCHANGED <<pc, error, ctorVars, reportVars, publishedVars, evals, feed,
                   hist, jobs>>

NextBase ==
    \/ FitFresh
    \/ Evaluate
    \/ EvaluateRaises
    \/ SearchEnd
    \/ Refit
    \/ RefitRaises
    \/ SearchBaseFinish

SpecBase == Init /\ [][NextBase]_vars

\* C13: with refit = False, once the inner search has finished, SearchBase.fit
\* returns normally with cv_results_, best_params_, best_score_ and
\* base_estimator_ published, and best_estimator_ set on neither object.
C13_NoRefitCompletes ==
    (base # None /\ ~refit /\ pc = "fitted") =>
        /\ base[1].pc = "returned"
        /\ base[1].error = ""
        /\ base[1].cv_results_ = cv_results_ /\ cv_results_ # None
        /\ base[1].best_params_ = best_params_
        /\ base[1].best_score_ = best_score_ /\ best_score_ # None
        /\ base[1].base_estimator_ # None
        /\ base[1].best_estimator_ = None
        /\ best_estimator_ = None

\* ---------------------------------------------------------------------
\* Repeated fit on one driver (specification Spec)
\* ---------------------------------------------------------------------

\* the evaluations completed during the fit call in progress or just over
ThisFit == {i \in 1..Len(hist) : i > Len(hist) - evals}

\* C14: the report published by a fit holds only evaluations made during
\* that fit call: it has no more rows than the fit made evaluations, every
\* row is one of them, and so is the published best entry.
C14_FitRepeatable ==
    Reported =>
        /\ Len(Table.params) <= evals
        /\ \A j \in 1..Len(Table.params) :
              \E i \in ThisFit : TableRow(j) = RowOf(hist[i])
        /\ \E i \in ThisFit :
              /\ best_params_ = Some(hist[i].params)
              /\ best_score_ = Some(Mean(hist[i].test_score))

====
